---- MODULE Spec2Model ----
(***************************************************************************)
(* Rules engine and click handling of chessmaniapygame.py: the Board       *)
(* (grid, en-passant target, side to move, move history) with its move     *)
(* generators, make_move, check / checkmate / stalemate queries and the    *)
(* legality filter, and the ChessGame session that drives it from clicks.  *)
(* Squares are <<row, col>>; Python lists are sequences in the code's      *)
(* order; Python's None is NoPiece for a cell and None for a square.       *)
(***************************************************************************)
EXTENDS Integers, Sequences, FiniteSets, TLC

ROWS == 8
COLS == 8
SQUARE_SIZE == 80

WHITE == "w"
BLACK == "b"

PAWN == "P"
ROOK == "R"
KNIGHT == "N"
BISHOP == "B"
QUEEN == "Q"
KING == "K"

\* Piece(color, piece_type)
Piece(color, piece_type) == [color |-> color, type |-> piece_type]

\* the value None in a cell of the grid
NoPiece == [color |-> "-", type |-> "-"]

\* the value None where the code holds an optional square or an optional colour
None == <<>>

RowRange == 0 .. (ROWS - 1)
ColRange == 0 .. (COLS - 1)

\* Color.BLACK if color == Color.WHITE else Color.WHITE
Opponent(color) == IF color = WHITE THEN BLACK ELSE WHITE

\* x in lst
InList(x, lst) == \E i \in 1 .. Len(lst) : lst[i] = x

----------------------------------------------------------------------------
(* Board: construction *)

piece_order == <<ROOK, KNIGHT, BISHOP, QUEEN, KING, BISHOP, KNIGHT, ROOK>>

set_initial_position ==
  [row \in RowRange |-> [col \in ColRange |->
     CASE row = 0 -> Piece(BLACK, piece_order[col + 1])
       [] row = 1 -> Piece(BLACK, PAWN)
       [] row = 6 -> Piece(WHITE, PAWN)
       [] row = 7 -> Piece(WHITE, piece_order[col + 1])
       [] OTHER -> NoPiece]]

\* Board.reset: the four fields of a Board
reset ==
  [board |-> set_initial_position,
   en_passant_target |-> None,
   current_player |-> WHITE,
   move_history |-> <<>>]

is_valid_position(row, col) == 0 <= row /\ row < ROWS /\ 0 <= col /\ col < COLS

get_piece(B, row, col) ==
  IF is_valid_position(row, col) THEN B.board[row][col] ELSE NoPiece

\* a slip of line 109: the colours not compared
is_enemy_of_any_colour(piece1, piece2) ==
  piece1 # NoPiece /\ piece2 # NoPiece

is_enemy(piece1, piece2) ==
  piece1 # NoPiece /\ piece2 # NoPiece /\ piece1.color # piece2.color

----------------------------------------------------------------------------
(* Board.make_move *)

\* a slip: an empty origin let through as if a piece stood there
make_move_raises_never(B, start) == FALSE

\* line 117 reads piece.type: with no piece on start Python raises
\* AttributeError there, before any assignment of make_move has run
make_move_raises(B, start) == B.board[start[1]][start[2]] = NoPiece

\* the promoted-to kind of line 126
PromotionType == QUEEN

\* a slip of line 125: only the far rank of White tested
is_promotion_row_0_only(piece, end_row) ==
  piece.type = PAWN /\ end_row = 0

\* pawn promotion test of line 125
is_promotion(piece, end_row) ==
  piece.type = PAWN /\ (end_row = 0 \/ end_row = 7)

\* en passant capture test of line 117
is_en_passant_capture(B, piece, end) ==
  piece.type = PAWN /\ end = B.en_passant_target

\* a slip of line 118: clearing the target square instead of the passed pawn's
en_passant_victim_on_target(start, end) == end

\* the cell cleared by line 118
en_passant_victim(start, end) == <<start[1], end[2]>>

\* a slip of line 130: the test for the pawn left out
new_en_passant_target_any_piece(piece, start, end) ==
  IF start[1] - end[1] = 2 \/ end[1] - start[1] = 2
  THEN <<end[1] + (IF start[1] - end[1] = 2 THEN 1 ELSE -1), end[2]>>
  ELSE None

\* lines 129-131
new_en_passant_target(piece, start, end) ==
  IF piece.type = PAWN /\ (start[1] - end[1] = 2 \/ end[1] - start[1] = 2)
  THEN <<end[1] + (IF start[1] - end[1] = 2 THEN 1 ELSE -1), end[2]>>
  ELSE None

\* a slip: line 122 left out, the origin keeps the piece
moved_grid_origin_kept(B, start, end) ==
  LET piece == B.board[start[1]][start[2]]
      g1 == IF is_en_passant_capture(B, piece, end)
            THEN [B.board EXCEPT ![en_passant_victim(start, end)[1]]
                                   [en_passant_victim(start, end)[2]] = NoPiece]
            ELSE B.board
      g2 == [g1 EXCEPT ![end[1]][end[2]] = piece]
  IN  IF is_promotion(piece, end[1])
      THEN [g2 EXCEPT ![end[1]][end[2]] = Piece(piece.color, PromotionType)]
      ELSE g2

\* lines 116-126: the grid after the move
moved_grid(B, start, end) ==
  LET piece == B.board[start[1]][start[2]]
      g1 == IF is_en_passant_capture(B, piece, end)
            THEN [B.board EXCEPT ![en_passant_victim(start, end)[1]]
                                   [en_passant_victim(start, end)[2]] = NoPiece]
            ELSE B.board
      g2 == [g1 EXCEPT ![end[1]][end[2]] = piece]
      g3 == [g2 EXCEPT ![start[1]][start[2]] = NoPiece]
  IN  IF is_promotion(piece, end[1])
      THEN [g3 EXCEPT ![end[1]][end[2]] = Piece(piece.color, PromotionType)]
      ELSE g3

\* a slip of line 134: the side to move left as it was
switch_player_stuck(B) == B.current_player

\* line 134: the side to move after the move
switch_player(B) == Opponent(B.current_player)

\* the Board after make_move(start, end); when it raises, the Board as the
\* exception leaves it
make_move(B, start, end) ==
  IF make_move_raises(B, start) THEN B
  ELSE [board |-> moved_grid(B, start, end),
        en_passant_target |->
           new_en_passant_target(B.board[start[1]][start[2]], start, end),
        current_player |-> switch_player(B),
        move_history |-> Append(B.move_history, <<start, end>>)]

----------------------------------------------------------------------------
(* Move generators: the lists the code builds, in its order *)

pawn_direction(piece) == IF piece.color = WHITE THEN -1 ELSE 1

\* a slip of line 146: the start row of White used for both colours
pawn_start_row_of_white(piece) == 6

pawn_start_row(piece) == IF piece.color = WHITE THEN 6 ELSE 1

\* a slip of lines 149 and 152: the advance made onto any square that holds
\* no piece of the pawn's own colour
get_pawn_moves_pushing(B, row, col) ==
  LET piece == get_piece(B, row, col)
      direction == pawn_direction(piece)
      start_row == pawn_start_row(piece)
      free(r, c) == is_valid_position(r, c) /\ get_piece(B, r, c).color # piece.color
      forward ==
        IF free(row + direction, col)
        THEN <<(<<row + direction, col>>)>> \o
             (IF row = start_row /\ free(row + 2 * direction, col)
              THEN <<(<<row + 2 * direction, col>>)>> ELSE <<>>)
        ELSE <<>>
      capture(dcol) ==
        IF /\ is_valid_position(row + direction, col + dcol)
           /\ \/ is_enemy(piece, get_piece(B, row + direction, col + dcol))
              \/ <<row + direction, col + dcol>> = B.en_passant_target
        THEN <<(<<row + direction, col + dcol>>)>> ELSE <<>>
  IN  IF piece = NoPiece THEN <<>>
      ELSE forward \o capture(-1) \o capture(1)

get_pawn_moves(B, row, col) ==
  LET piece == get_piece(B, row, col)
      direction == pawn_direction(piece)
      start_row == pawn_start_row(piece)
      forward ==
        IF get_piece(B, row + direction, col) = NoPiece
        THEN <<(<<row + direction, col>>)>> \o
             (IF row = start_row /\ get_piece(B, row + 2 * direction, col) = NoPiece
              THEN <<(<<row + 2 * direction, col>>)>> ELSE <<>>)
        ELSE <<>>
      capture(dcol) ==
        IF /\ is_valid_position(row + direction, col + dcol)
           /\ \/ is_enemy(piece, get_piece(B, row + direction, col + dcol))
              \/ <<row + direction, col + dcol>> = B.en_passant_target
        THEN <<(<<row + direction, col + dcol>>)>> ELSE <<>>
  IN  IF piece = NoPiece THEN <<>>
      ELSE forward \o capture(-1) \o capture(1)

\* the inner loop "for i in range(1, 8)" of get_rook_moves / get_bishop_moves
RECURSIVE slide(_, _, _, _, _, _, _)

\* a slip of lines 179-181: the break after the capture left out
slide_through_enemy(B, piece, row, col, dr, dc, i) ==
  LET new_row == row + i * dr
      new_col == col + i * dc
      target == get_piece(B, new_row, new_col)
  IN  IF i >= 8 THEN <<>>
      ELSE IF ~is_valid_position(new_row, new_col) THEN <<>>
      ELSE IF target = NoPiece \/ is_enemy(piece, target)
           THEN <<(<<new_row, new_col>>)>> \o slide(B, piece, row, col, dr, dc, i + 1)
      ELSE <<>>

slide(B, piece, row, col, dr, dc, i) ==
  LET new_row == row + i * dr
      new_col == col + i * dc
      target == get_piece(B, new_row, new_col)
  IN  IF i >= 8 THEN <<>>
      ELSE IF ~is_valid_position(new_row, new_col) THEN <<>>
      ELSE IF target = NoPiece
           THEN <<(<<new_row, new_col>>)>> \o slide(B, piece, row, col, dr, dc, i + 1)
      ELSE IF is_enemy(piece, target) THEN <<(<<new_row, new_col>>)>>
      ELSE <<>>

rook_directions == << <<-1, 0>>, <<1, 0>>, <<0, -1>>, <<0, 1>> >>
bishop_directions == << <<-1, -1>>, <<-1, 1>>, <<1, -1>>, <<1, 1>> >>

\* the outer loop over directions
RECURSIVE slide_all(_, _, _, _, _, _)
slide_all(B, piece, row, col, directions, k) ==
  IF k > Len(directions) THEN <<>>
  ELSE slide(B, piece, row, col, directions[k][1], directions[k][2], 1)
       \o slide_all(B, piece, row, col, directions, k + 1)

get_rook_moves(B, row, col) ==
  LET piece == get_piece(B, row, col)
  IN  IF piece = NoPiece THEN <<>>
      ELSE slide_all(B, piece, row, col, rook_directions, 1)

get_bishop_moves(B, row, col) ==
  LET piece == get_piece(B, row, col)
  IN  IF piece = NoPiece THEN <<>>
      ELSE slide_all(B, piece, row, col, bishop_directions, 1)

get_queen_moves(B, row, col) ==
  get_rook_moves(B, row, col) \o get_bishop_moves(B, row, col)

knight_moves == << <<-2, -1>>, <<-2, 1>>, <<-1, -2>>, <<-1, 2>>,
                   <<1, -2>>, <<1, 2>>, <<2, -1>>, <<2, 1>> >>
king_moves == << <<-1, -1>>, <<-1, 0>>, <<-1, 1>>, <<0, -1>>,
                 <<0, 1>>, <<1, -1>>, <<1, 0>>, <<1, 1>> >>

\* the loop shared by get_knight_moves and get_king_moves
RECURSIVE step_all(_, _, _, _, _, _)
step_all(B, piece, row, col, offsets, k) ==
  LET new_row == row + offsets[k][1]
      new_col == col + offsets[k][2]
      target == get_piece(B, new_row, new_col)
  IN  IF k > Len(offsets) THEN <<>>
      ELSE (IF /\ is_valid_position(new_row, new_col)
               /\ (target = NoPiece \/ is_enemy(piece, target))
            THEN <<(<<new_row, new_col>>)>> ELSE <<>>)
           \o step_all(B, piece, row, col, offsets, k + 1)

get_knight_moves(B, row, col) ==
  LET piece == get_piece(B, row, col)
  IN  IF piece = NoPiece THEN <<>>
      ELSE step_all(B, piece, row, col, knight_moves, 1)

get_king_moves(B, row, col) ==
  LET piece == get_piece(B, row, col)
  IN  IF piece = NoPiece THEN <<>>
      ELSE step_all(B, piece, row, col, king_moves, 1)

\* Piece.get_legal_moves: dispatch on the kind of the piece at (row, col)
piece_moves(B, row, col) ==
  LET piece == get_piece(B, row, col)
  IN  CASE piece.type = PAWN -> get_pawn_moves(B, row, col)
        [] piece.type = ROOK -> get_rook_moves(B, row, col)
        [] piece.type = KNIGHT -> get_knight_moves(B, row, col)
        [] piece.type = BISHOP -> get_bishop_moves(B, row, col)
        [] piece.type = QUEEN -> get_queen_moves(B, row, col)
        [] piece.type = KING -> get_king_moves(B, row, col)
        [] OTHER -> <<>>

----------------------------------------------------------------------------
(* Check detection *)

is_square_attacked(B, row, col, attacking_color) ==
  \E r \in RowRange : \E c \in ColRange :
     /\ get_piece(B, r, c) # NoPiece
     /\ get_piece(B, r, c).color = attacking_color
     /\ InList(<<row, col>>, piece_moves(B, r, c))

\* a slip of line 256: the colour of the king not tested
find_king_any_color(B, color) ==
  LET kings == {sq \in RowRange \X ColRange : B.board[sq[1]][sq[2]].type = KING}
  IN  IF kings = {} THEN None
      ELSE CHOOSE sq \in kings :
             \A other \in kings : sq[1] * COLS + sq[2] <= other[1] * COLS + other[2]

\* the first king of the colour in row-major order, or None
find_king(B, color) ==
  LET kings == {sq \in RowRange \X ColRange :
                  B.board[sq[1]][sq[2]] = Piece(color, KING)}
  IN  IF kings = {} THEN None
      ELSE CHOOSE sq \in kings :
             \A other \in kings : sq[1] * COLS + sq[2] <= other[1] * COLS + other[2]

is_in_check(B, color) ==
  LET king_pos == find_king(B, color)
  IN  IF king_pos = None THEN FALSE
      ELSE is_square_attacked(B, king_pos[1], king_pos[2], Opponent(color))

----------------------------------------------------------------------------
(* Legality filter *)

\* line 301: temp_board.board = [row[:] for row in self.board]
copy_rows(grid) == [row \in RowRange |-> [col \in ColRange |-> grid[row][col]]]

\* lines 300-301: a fresh Board() whose grid is then replaced by the copy; its
\* en_passant_target, current_player and move_history are those of reset
temp_board(B) == [reset EXCEPT !.board = copy_rows(B.board)]

\* line 303 for one candidate move
survives(B, row, col, move) ==
  ~is_in_check(make_move(temp_board(B), <<row, col>>, move),
               get_piece(B, row, col).color)

get_legal_moves(B, row, col) ==
  LET piece == get_piece(B, row, col)
      moves == piece_moves(B, row, col)
      keep(move) == survives(B, row, col, move)
  IN  IF piece = NoPiece THEN <<>> ELSE SelectSeq(moves, keep)

\* the loop of is_checkmate / is_stalemate: no piece of the colour has a legal move
no_legal_move(B, color) ==
  \A row \in RowRange : \A col \in ColRange :
     (get_piece(B, row, col) # NoPiece /\ get_piece(B, row, col).color = color)
        => get_legal_moves(B, row, col) = <<>>

is_checkmate(B, color) ==
  IF ~is_in_check(B, color) THEN FALSE ELSE no_legal_move(B, color)

\* a slip of lines 280-281: the test for check left out
is_stalemate_unguarded(B, color) == no_legal_move(B, color)

is_stalemate(B, color) ==
  IF is_in_check(B, color) THEN FALSE ELSE no_legal_move(B, color)

----------------------------------------------------------------------------
(* What the queries leave behind on the Board they are called on *)

\* a slip of line 301: temp_board.board = self.board, every row shared
scratch_shared_rows_all == RowRange

\* the rows of temp_board.board that are the very list objects of self.board:
\* none, line 301 builds a new outer list and copies every row with row[:]
scratch_shared_rows == {}

\* self as temp_board.make_move leaves it: a write to a shared row shows in self
after_simulation(B, T) ==
  [B EXCEPT !.board = [row \in RowRange |->
                         IF row \in scratch_shared_rows THEN T.board[row]
                         ELSE B.board[row]]]

\* the loop of lines 299-304 from its k-th candidate on
RECURSIVE simulate_all(_, _, _, _, _)
simulate_all(B, row, col, moves, k) ==
  IF k > Len(moves) THEN B
  ELSE simulate_all(
         after_simulation(B, make_move(temp_board(B), <<row, col>>, moves[k])),
         row, col, moves, k + 1)

\* self after get_legal_moves(row, col)
after_get_legal_moves(B, row, col) ==
  IF get_piece(B, row, col) = NoPiece THEN B
  ELSE simulate_all(B, row, col, piece_moves(B, row, col), 1)

\* the scan of lines 270-276 / 283-289 from cell idx (row-major) on: it calls
\* get_legal_moves for every piece of the colour until one has a move
RECURSIVE after_scan(_, _, _)
after_scan(B, color, idx) ==
  LET row == idx \div COLS
      col == idx % COLS
      piece == get_piece(B, row, col)
  IN  IF idx >= ROWS * COLS THEN B
      ELSE IF piece # NoPiece /\ piece.color = color
           THEN (IF get_legal_moves(B, row, col) # <<>>
                 THEN after_get_legal_moves(B, row, col)
                 ELSE after_scan(after_get_legal_moves(B, row, col), color, idx + 1))
      ELSE after_scan(B, color, idx + 1)

\* self after is_checkmate(color)
after_is_checkmate(B, color) ==
  IF ~is_in_check(B, color) THEN B ELSE after_scan(B, color, 0)

\* self after is_stalemate(color)
after_is_stalemate(B, color) ==
  IF is_in_check(B, color) THEN B ELSE after_scan(B, color, 0)

----------------------------------------------------------------------------
(* ChessGame *)

VARIABLES
  board,              \* Board.board: the 8x8 grid
  en_passant_target,  \* Board.en_passant_target
  current_player,     \* Board.current_player
  move_history,       \* Board.move_history
  selected_piece,     \* ChessGame.selected_piece
  legal_moves,        \* ChessGame.legal_moves
  game_over,          \* ChessGame.game_over
  winner,             \* ChessGame.winner
  strays,             \* clicks of this session that left the recorded games
  ret                 \* the Board method a caller is in, with its outcome

vars == <<board, en_passant_target, current_player, move_history,
          selected_piece, legal_moves, game_over, winner, strays, ret>>

\* no Board method is being called directly
Idle == [op |-> "idle", args |-> <<>>, value |-> <<>>]

\* the value None of ChessGame.winner
NoWinner == "none"

\* the Board object held by the game
Self ==
  [board |-> board,
   en_passant_target |-> en_passant_target,
   current_player |-> current_player,
   move_history |-> move_history]

\* the ChessGame object
Game ==
  [B |-> Self,
   selected_piece |-> selected_piece,
   legal_moves |-> legal_moves,
   game_over |-> game_over,
   winner |-> winner]

\* ChessGame.__init__
NewGame ==
  [B |-> reset,
   selected_piece |-> None,
   legal_moves |-> <<>>,
   game_over |-> FALSE,
   winner |-> NoWinner]

\* ChessGame.check_game_over
check_game_over(G) ==
  IF is_checkmate(G.B, G.B.current_player)
  THEN [G EXCEPT !.game_over = TRUE, !.winner = Opponent(G.B.current_player)]
  ELSE IF is_stalemate(G.B, G.B.current_player)
  THEN [G EXCEPT !.game_over = TRUE, !.winner = NoWinner]
  ELSE G

\* lines 325-327 and 336-338: select the clicked piece
select(G, row, col) ==
  [G EXCEPT !.selected_piece = <<row, col>>,
            !.legal_moves = get_legal_moves(G.B, row, col)]

\* a slip of lines 333 and 342: the move list of the dropped selection kept
deselect_keeping_moves(G) == [G EXCEPT !.selected_piece = None]

\* lines 340-342 (and 331-333): drop the selection
deselect(G) == [G EXCEPT !.selected_piece = None, !.legal_moves = <<>>]

\* line 320: the <<row, col>> of a click point
SquareOf(pos) == <<pos[2] \div SQUARE_SIZE, pos[1] \div SQUARE_SIZE>>

\* a slip: the early return of lines 317-318 left out
handle_click_when_over(G, pos) ==
  LET col == SquareOf(pos)[2]
      row == SquareOf(pos)[1]
      piece == get_piece(G.B, row, col)
      own == piece # NoPiece /\ piece.color = G.B.current_player
  IN  IF G.selected_piece = None
      THEN (IF own THEN select(G, row, col) ELSE G)
      ELSE IF InList(<<row, col>>, G.legal_moves)
           THEN check_game_over(
                  deselect([G EXCEPT !.B = make_move(G.B, G.selected_piece, <<row, col>>)]))
      ELSE IF own THEN select(G, row, col)
      ELSE deselect(G)

\* ChessGame.handle_click(pos), pos = <<x, y>> in pixels
handle_click(G, pos) ==
  LET col == SquareOf(pos)[2]
      row == SquareOf(pos)[1]
      piece == get_piece(G.B, row, col)
      own == piece # NoPiece /\ piece.color = G.B.current_player
  IN  IF G.game_over THEN G
      ELSE IF G.selected_piece = None
           THEN (IF own THEN select(G, row, col) ELSE G)
      ELSE IF InList(<<row, col>>, G.legal_moves)
           THEN check_game_over(
                  deselect([G EXCEPT !.B = make_move(G.B, G.selected_piece, <<row, col>>)]))
      ELSE IF own THEN select(G, row, col)
      ELSE deselect(G)

----------------------------------------------------------------------------
(* The session: clicks and the reset key *)

\* The games the clicks are steered along: each is a sequence of moves
\* <<start, end>> played from the initial position, every one taken from the
\* move list handle_click computed for the selected piece.

\* e2e4 c7c6 e4e5 d8a5 e1e2 a7a6 e2f3 h7h6 f3g4 b7b6 g4h5 d7d5 e5d6 a5h5
LinePinnedEnPassant ==
  << << <<6, 4>>, <<4, 4>> >>,
     << <<1, 2>>, <<2, 2>> >>,
     << <<4, 4>>, <<3, 4>> >>,
     << <<0, 3>>, <<3, 0>> >>,
     << <<7, 4>>, <<6, 4>> >>,
     << <<1, 0>>, <<2, 0>> >>,
     << <<6, 4>>, <<5, 5>> >>,
     << <<1, 7>>, <<2, 7>> >>,
     << <<5, 5>>, <<4, 6>> >>,
     << <<1, 1>>, <<2, 1>> >>,
     << <<4, 6>>, <<3, 7>> >>,
     << <<1, 3>>, <<3, 3>> >>,
     << <<3, 4>>, <<2, 3>> >>,
     << <<3, 0>>, <<3, 7>> >> >>

\* e2e4 a7a6 e4e5 a6a5 e1e2 a5a4 e2e3 h7h6 e3e4 d7d5 e4d4
LineCheckingDoubleStep ==
  << << <<6, 4>>, <<4, 4>> >>,
     << <<1, 0>>, <<2, 0>> >>,
     << <<4, 4>>, <<3, 4>> >>,
     << <<2, 0>>, <<3, 0>> >>,
     << <<7, 4>>, <<6, 4>> >>,
     << <<3, 0>>, <<4, 0>> >>,
     << <<6, 4>>, <<5, 4>> >>,
     << <<1, 7>>, <<2, 7>> >>,
     << <<5, 4>>, <<4, 4>> >>,
     << <<1, 3>>, <<3, 3>> >>,
     << <<4, 4>>, <<4, 3>> >> >>

\* e2e4 a7a6 e4e5 d7d5 e5d6
LineEnPassantWhite ==
  << << <<6, 4>>, <<4, 4>> >>,
     << <<1, 0>>, <<2, 0>> >>,
     << <<4, 4>>, <<3, 4>> >>,
     << <<1, 3>>, <<3, 3>> >>,
     << <<3, 4>>, <<2, 3>> >> >>

\* a2a3 e7e5 a3a4 e5e4 d2d4 e4d3
LineEnPassantBlack ==
  << << <<6, 0>>, <<5, 0>> >>,
     << <<1, 4>>, <<3, 4>> >>,
     << <<5, 0>>, <<4, 0>> >>,
     << <<3, 4>>, <<4, 4>> >>,
     << <<6, 3>>, <<4, 3>> >>,
     << <<4, 4>>, <<5, 3>> >> >>

\* a2a4 b7b5 a4b5 a7a6 b5b6 a6a5 b6c7 a5a4 c7b8 a4a3 h2h3 a3b2 h3h4 b2c1
LinePromotion ==
  << << <<6, 0>>, <<4, 0>> >>,
     << <<1, 1>>, <<3, 1>> >>,
     << <<4, 0>>, <<3, 1>> >>,
     << <<1, 0>>, <<2, 0>> >>,
     << <<3, 1>>, <<2, 1>> >>,
     << <<2, 0>>, <<3, 0>> >>,
     << <<2, 1>>, <<1, 2>> >>,
     << <<3, 0>>, <<4, 0>> >>,
     << <<1, 2>>, <<0, 1>> >>,
     << <<4, 0>>, <<5, 0>> >>,
     << <<6, 7>>, <<5, 7>> >>,
     << <<5, 0>>, <<6, 1>> >>,
     << <<5, 7>>, <<4, 7>> >>,
     << <<6, 1>>, <<7, 2>> >> >>

\* f2f3 e7e5 g2g4 d8h4
LineFoolsMate ==
  << << <<6, 5>>, <<5, 5>> >>,
     << <<1, 4>>, <<3, 4>> >>,
     << <<6, 6>>, <<4, 6>> >>,
     << <<0, 3>>, <<4, 7>> >> >>

\* e2e3 a7a5 d1h5 a8a6 h5a5 h7h5 h2h4 a6h6 a5c7 f7f6 c7d7 e8f7 d7b7 d8d3 b7b8 d3h7 b8c8 f7g6 c8e6
LineStalemate ==
  << << <<6, 4>>, <<5, 4>> >>,
     << <<1, 0>>, <<3, 0>> >>,
     << <<7, 3>>, <<3, 7>> >>,
     << <<0, 0>>, <<2, 0>> >>,
     << <<3, 7>>, <<3, 0>> >>,
     << <<1, 7>>, <<3, 7>> >>,
     << <<6, 7>>, <<4, 7>> >>,
     << <<2, 0>>, <<2, 7>> >>,
     << <<3, 0>>, <<1, 2>> >>,
     << <<1, 5>>, <<2, 5>> >>,
     << <<1, 2>>, <<1, 3>> >>,
     << <<0, 4>>, <<1, 5>> >>,
     << <<1, 3>>, <<1, 1>> >>,
     << <<0, 3>>, <<5, 3>> >>,
     << <<1, 1>>, <<0, 1>> >>,
     << <<5, 3>>, <<1, 7>> >>,
     << <<0, 1>>, <<0, 2>> >>,
     << <<1, 5>>, <<2, 6>> >>,
     << <<0, 2>>, <<2, 4>> >> >>

\* e2e4 e7e6 e4e5 a7a6 e1e2 a6a5 e2e3 h7h6 e3e4 d8g5 d2d3 f8c5 f2f3 d7d5
LineEnPassantEscape ==
  << << <<6, 4>>, <<4, 4>> >>,
     << <<1, 4>>, <<2, 4>> >>,
     << <<4, 4>>, <<3, 4>> >>,
     << <<1, 0>>, <<2, 0>> >>,
     << <<7, 4>>, <<6, 4>> >>,
     << <<2, 0>>, <<3, 0>> >>,
     << <<6, 4>>, <<5, 4>> >>,
     << <<1, 7>>, <<2, 7>> >>,
     << <<5, 4>>, <<4, 4>> >>,
     << <<0, 3>>, <<3, 6>> >>,
     << <<6, 3>>, <<5, 3>> >>,
     << <<0, 5>>, <<3, 2>> >>,
     << <<6, 5>>, <<5, 5>> >>,
     << <<1, 3>>, <<3, 3>> >> >>

Games ==
  {LinePinnedEnPassant, LineCheckingDoubleStep, LineEnPassantWhite,
   LineEnPassantBlack, LinePromotion, LineFoolsMate, LineStalemate,
   LineEnPassantEscape}

\* how many clicks of a session may stray from the recorded games
MaxStray == 1

\* one click point inside every square of the 640 x 640 window
PixelOffset == 40
ClickPoints ==
  {<<col * SQUARE_SIZE + PixelOffset, row * SQUARE_SIZE + PixelOffset>> :
     row \in RowRange, col \in ColRange}

IsPrefix(s, t) == Len(s) <= Len(t) /\ SubSeq(t, 1, Len(s)) = s

\* the moves that continue a recorded game from the history
NextMoves(history) ==
  {line[Len(history) + 1] :
     line \in {l \in Games : Len(l) > Len(history) /\ IsPrefix(history, l)}}

\* the squares whose click continues a recorded game: the origin of its next
\* move, or the destination once that origin is selected
ScriptedSquares(G) ==
  {IF G.selected_piece = m[1] THEN m[2] ELSE m[1] : m \in NextMoves(G.B.move_history)}

Init ==
  /\ board = NewGame.B.board
  /\ en_passant_target = NewGame.B.en_passant_target
  /\ current_player = NewGame.B.current_player
  /\ move_history = NewGame.B.move_history
  /\ selected_piece = NewGame.selected_piece
  /\ legal_moves = NewGame.legal_moves
  /\ game_over = NewGame.game_over
  /\ winner = NewGame.winner
  /\ strays = 0
  /\ ret = Idle

\* the game object becomes G
Becomes(G) ==
  /\ board' = G.B.board
  /\ en_passant_target' = G.B.en_passant_target
  /\ current_player' = G.B.current_player
  /\ move_history' = G.B.move_history
  /\ selected_piece' = G.selected_piece
  /\ legal_moves' = G.legal_moves
  /\ game_over' = G.game_over
  /\ winner' = G.winner

\* MOUSEBUTTONDOWN / MOUSEBUTTONUP: game.handle_click(pygame.mouse.get_pos())
HandleClick(pos) ==
  /\ \/ SquareOf(pos) \in ScriptedSquares(Game) /\ strays' = strays
     \/ SquareOf(pos) \notin ScriptedSquares(Game) /\ strays < MaxStray
        /\ strays' = strays + 1
  /\ \E G \in {handle_click(Game, pos)} : Becomes(G)
  /\ UNCHANGED ret

\* KEYDOWN K_r: game = ChessGame()
ResetKey == Becomes(NewGame) /\ strays' = 0 /\ UNCHANGED ret

Next ==
  \/ \E pos \in ClickPoints : HandleClick(pos)
  \/ ResetKey

Spec == Init /\ [][Next]_vars

----------------------------------------------------------------------------
(* A Board called directly: a caller builds a Board, assigns its grid (as     *)
(* lines 300-301 do for temp_board) and calls its methods one at a time.      *)

\* the grid holding the given <<square, piece>> pairs and nothing else
Place(pairs) ==
  [row \in RowRange |-> [col \in ColRange |->
     IF \E pr \in pairs : pr[1] = <<row, col>>
     THEN (CHOOSE pr \in pairs : pr[1] = <<row, col>>)[2]
     ELSE NoPiece]]

\* Black is checkmated by a protected queen
FxMate ==
  Place({ <<<<0, 0>>, Piece(BLACK, KING)>>, <<<<1, 1>>, Piece(WHITE, QUEEN)>>,
          <<<<2, 2>>, Piece(WHITE, KING)>> })
\* Black is stalemated
FxStalemate ==
  Place({ <<<<0, 0>>, Piece(BLACK, KING)>>, <<<<1, 2>>, Piece(WHITE, QUEEN)>>,
          <<<<2, 1>>, Piece(WHITE, KING)>> })
\* Black is in check by a rook and has an escape
FxCheck ==
  Place({ <<<<0, 0>>, Piece(BLACK, KING)>>, <<<<0, 3>>, Piece(WHITE, ROOK)>>,
          <<<<2, 2>>, Piece(WHITE, KING)>> })
\* the black rook is pinned to its king by the bishop
FxPin ==
  Place({ <<<<0, 0>>, Piece(BLACK, KING)>>, <<<<1, 1>>, Piece(BLACK, ROOK)>>,
          <<<<3, 3>>, Piece(WHITE, BISHOP)>>, <<<<7, 7>>, Piece(WHITE, KING)>> })
\* no white king
FxNoWhiteKing ==
  Place({ <<<<0, 0>>, Piece(BLACK, KING)>>, <<<<1, 2>>, Piece(BLACK, QUEEN)>>,
          <<<<3, 3>>, Piece(WHITE, ROOK)>>, <<<<2, 2>>, Piece(WHITE, KNIGHT)>> })
\* no black king
FxNoBlackKing ==
  Place({ <<<<3, 3>>, Piece(WHITE, KING)>>, <<<<1, 1>>, Piece(WHITE, QUEEN)>>,
          <<<<0, 0>>, Piece(BLACK, KNIGHT)>>, <<<<1, 2>>, Piece(BLACK, PAWN)>> })
\* no king at all; the white pawn is one step from promotion
FxNoKings ==
  Place({ <<<<1, 1>>, Piece(WHITE, PAWN)>>, <<<<0, 0>>, Piece(BLACK, ROOK)>>,
          <<<<1, 2>>, Piece(BLACK, PAWN)>>, <<<<3, 3>>, Piece(WHITE, KNIGHT)>> })
\* the empty grid
FxEmpty == Place({})
\* the two kings side by side
FxAdjacentKings ==
  Place({ <<<<0, 0>>, Piece(BLACK, KING)>>, <<<<1, 1>>, Piece(WHITE, KING)>> })
\* the grid of a fresh Board
FxInitial == set_initial_position
\* a pawn stands straight before each king: one step before White's, two
\* steps, from its start row, before Black's
FxPawnAhead ==
  Place({ <<<<3, 3>>, Piece(WHITE, KING)>>, <<<<2, 3>>, Piece(BLACK, PAWN)>>,
          <<<<4, 5>>, Piece(BLACK, KING)>>, <<<<6, 5>>, Piece(WHITE, PAWN)>> })
\* White is in check by a pawn, Black by a knight
FxPawnCheck ==
  Place({ <<<<3, 3>>, Piece(WHITE, KING)>>, <<<<2, 2>>, Piece(BLACK, PAWN)>>,
          <<<<0, 0>>, Piece(BLACK, KING)>>, <<<<2, 1>>, Piece(WHITE, KNIGHT)>> })

Fixtures ==
  {FxMate, FxStalemate, FxCheck, FxPin, FxNoWhiteKing, FxNoBlackKing,
   FxNoKings, FxEmpty, FxAdjacentKings, FxInitial, FxPawnAhead, FxPawnCheck}

\* the squares the direct calls are given
CallSquares == { <<0, 0>>, <<1, 1>>, <<1, 2>>, <<2, 2>>, <<3, 3>> }

Colors == {WHITE, BLACK}

\* how many moves a directly called Board makes
MaxBoardMoves == 1

InitBoard ==
  /\ board \in Fixtures
  /\ en_passant_target = reset.en_passant_target
  /\ current_player = reset.current_player
  /\ move_history = reset.move_history
  /\ selected_piece = NewGame.selected_piece
  /\ legal_moves = NewGame.legal_moves
  /\ game_over = NewGame.game_over
  /\ winner = NewGame.winner
  /\ strays = 0
  /\ ret = Idle

\* the Board object becomes B
BoardBecomes(B) ==
  /\ board' = B.board
  /\ en_passant_target' = B.en_passant_target
  /\ current_player' = B.current_player
  /\ move_history' = B.move_history
  /\ UNCHANGED <<selected_piece, legal_moves, game_over, winner, strays>>

\* the call op(args) ends with the outcome value
Returns(op, args, value) == ret' = [op |-> op, args |-> args, value |-> value]

\* board.make_move(start, end)
CallMakeMove(start, end) ==
  /\ ret = Idle
  /\ make_move_raises(Self, start) \/ Len(move_history) < MaxBoardMoves
  /\ Returns("make_move", <<start, end>>,
             IF make_move_raises(Self, start) THEN "AttributeError" ELSE "None")
  /\ BoardBecomes(make_move(Self, start, end))

\* board.get_legal_moves(row, col)
CallGetLegalMoves(sq) ==
  /\ ret = Idle
  /\ Returns("get_legal_moves", <<sq>>, get_legal_moves(Self, sq[1], sq[2]))
  /\ BoardBecomes(after_get_legal_moves(Self, sq[1], sq[2]))

\* board.is_checkmate(color)
CallIsCheckmate(color) ==
  /\ ret = Idle
  /\ Returns("is_checkmate", <<color>>, is_checkmate(Self, color))
  /\ BoardBecomes(after_is_checkmate(Self, color))

\* board.is_stalemate(color)
CallIsStalemate(color) ==
  /\ ret = Idle
  /\ Returns("is_stalemate", <<color>>, is_stalemate(Self, color))
  /\ BoardBecomes(after_is_stalemate(Self, color))

\* board.is_in_check(color): find_king and the move generators only read
CallIsInCheck(color) ==
  /\ ret = Idle
  /\ Returns("is_in_check", <<color>>, is_in_check(Self, color))
  /\ BoardBecomes(Self)

\* board.is_square_attacked(row, col, attacking_color)
CallIsSquareAttacked(sq, color) ==
  /\ ret = Idle
  /\ Returns("is_square_attacked", <<sq, color>>,
             is_square_attacked(Self, sq[1], sq[2], color))
  /\ BoardBecomes(Self)

\* board.find_king(color)
CallFindKing(color) ==
  /\ ret = Idle
  /\ Returns("find_king", <<color>>, find_king(Self, color))
  /\ BoardBecomes(Self)

\* the caller takes the outcome
Return ==
  /\ ret # Idle
  /\ ret' = Idle
  /\ UNCHANGED <<board, en_passant_target, current_player, move_history,
                 selected_piece, legal_moves, game_over, winner, strays>>

NextBoard ==
  \/ \E start \in CallSquares, end \in CallSquares : CallMakeMove(start, end)
  \/ \E sq \in CallSquares : CallGetLegalMoves(sq)
  \/ \E color \in Colors : CallIsCheckmate(color)
  \/ \E color \in Colors : CallIsStalemate(color)
  \/ \E color \in Colors : CallIsInCheck(color)
  \/ \E sq \in CallSquares, color \in Colors : CallIsSquareAttacked(sq, color)
  \/ \E color \in Colors : CallFindKing(color)
  \/ Return

SpecBoard == InitBoard /\ [][NextBoard]_vars

----------------------------------------------------------------------------
(* Properties of the session *)

Squares == RowRange \X ColRange

PieceAt(sq) == board[sq[1]][sq[2]]

\* the destinations of a move list that leave the colour in check when the
\* move is made on the Board itself
LeavesInCheck(B, sq, moves) ==
  {i \in 1 .. Len(moves) :
     is_in_check(make_move(B, sq, moves[i]), B.board[sq[1]][sq[2]].color)}

\* C1: every destination get_legal_moves returns for an occupied square, made
\* with make_move on the Board itself, leaves the mover's colour out of check.
C1_LegalMovesAreSound ==
  \A sq \in Squares :
     PieceAt(sq) # NoPiece =>
        LeavesInCheck(Self, sq, get_legal_moves(Self, sq[1], sq[2])) = {}

\* C2: get_legal_moves drops a pseudo-legal destination only if the move, made
\* with make_move on the Board itself, leaves the mover's colour in check.
C2_OnlyCheckedMovesDropped ==
  \A sq \in Squares :
     PieceAt(sq) # NoPiece =>
        LET moves == piece_moves(Self, sq[1], sq[2])
            legal == get_legal_moves(Self, sq[1], sq[2])
        IN  \A i \in 1 .. Len(moves) :
               InList(moves[i], legal) \/ i \in LeavesInCheck(Self, sq, moves)

Last(seq) == seq[Len(seq)]

\* this step made a move on the Board
MoveApplied == Len(move_history') = Len(move_history) + 1

\* the move this step made
AppliedMove == move_history'[Len(move_history')]

\* the move prev was a two-row advance of the pawn that now stands on its end
IsDoubleStep(prev) ==
  /\ PieceAt(prev[2]).type = PAWN
  /\ prev[1][2] = prev[2][2]
  /\ (prev[1][1] - prev[2][1] = 2 \/ prev[2][1] - prev[1][1] = 2)

\* the square a two-row advance jumped over
Skipped(prev) == <<(prev[1][1] + prev[2][1]) \div 2, prev[2][2]>>

\* the move m takes an enemy pawn standing beside the pawn of the two-row
\* advance prev onto the square that advance jumped over
IsEnPassantOf(m, prev) ==
  /\ m[1][1] = prev[2][1]
  /\ (m[1][2] = prev[2][2] - 1 \/ m[1][2] = prev[2][2] + 1)
  /\ m[2] = Skipped(prev)

C3_Step ==
  (/\ MoveApplied
   /\ Len(move_history) >= 1
   /\ IsDoubleStep(Last(move_history))
   /\ IsEnPassantOf(AppliedMove, Last(move_history))
   /\ PieceAt(AppliedMove[1]).type = PAWN
   /\ is_enemy(PieceAt(AppliedMove[1]), PieceAt(Last(move_history)[2])))
  => /\ board'[AppliedMove[2][1]][AppliedMove[2][2]] = PieceAt(AppliedMove[1])
     /\ board'[AppliedMove[1][1]][AppliedMove[1][2]] = NoPiece
     /\ board'[Last(move_history)[2][1]][Last(move_history)[2][2]] = NoPiece
     /\ PieceAt(AppliedMove[2]) = NoPiece

\* C3: when a pawn has just advanced two rows and an enemy pawn beside it is
\* moved onto the square it jumped over, the capturing pawn ends on that
\* square, its origin and the square of the advanced pawn end empty, and the
\* square jumped over was empty before.
C3_EnPassantCapture == [][C3_Step]_vars

\* an en-passant capture has just been made
C3_Witness ==
  /\ Len(move_history) >= 2
  /\ LET prev == move_history[Len(move_history) - 1]
         m == Last(move_history)
     IN  /\ prev[1][2] = prev[2][2]
         /\ (prev[1][1] - prev[2][1] = 2 \/ prev[2][1] - prev[1][1] = 2)
         /\ IsEnPassantOf(m, prev)
         /\ PieceAt(m[2]).type = PAWN
         /\ PieceAt(prev[2]) = NoPiece
         /\ PieceAt(m[1]) = NoPiece

\* the pawn destinations that step sideways onto an empty square
EmptyDiagonals(sq) ==
  LET moves == get_pawn_moves(Self, sq[1], sq[2])
  IN  {moves[i] : i \in {j \in 1 .. Len(moves) :
                           moves[j][2] # sq[2] /\ PieceAt(moves[j]) = NoPiece}}

\* C4: the en-passant target is the square jumped over when the last move was
\* a pawn's two-row advance and None otherwise; a target is an empty square
\* of row 2 or 5 with a pawn of the side not to move one step beyond it; and a
\* pawn can step diagonally onto an empty square only onto that target.
C4_EnPassantLifecycle ==
  /\ Len(move_history) = 0 => en_passant_target = None
  /\ Len(move_history) > 0 =>
       IF IsDoubleStep(Last(move_history))
       THEN en_passant_target = Skipped(Last(move_history))
       ELSE en_passant_target = None
  /\ en_passant_target # None =>
       /\ en_passant_target[1] \in {2, 5}
       /\ PieceAt(en_passant_target) = NoPiece
       /\ PieceAt(<<IF en_passant_target[1] = 5 THEN 4 ELSE 3, en_passant_target[2]>>)
            = Piece(Opponent(current_player), PAWN)
  /\ \A sq \in Squares :
       PieceAt(sq).type = PAWN => EmptyDiagonals(sq) \subseteq {en_passant_target}

\* a target is set and a pawn of the side to move can capture onto it
C4_Witness ==
  /\ en_passant_target # None
  /\ \E sq \in Squares :
       /\ PieceAt(sq) = Piece(current_player, PAWN)
       /\ en_passant_target \in EmptyDiagonals(sq)

C5_Parity ==
  (current_player = WHITE) <=> (Len(move_history) % 2 = 0)

\* a step that changes the Board, other than the reset key's, is one move
C5_Step ==
  (Self' # Self /\ move_history' # <<>>) =>
     /\ MoveApplied
     /\ move_history' = Append(move_history, AppliedMove)
     /\ current_player' = Opponent(current_player)
     /\ PieceAt(AppliedMove[1]) # NoPiece
     /\ PieceAt(AppliedMove[1]).color = current_player

\* C5: every move flips current_player and appends exactly one <<start, end>>
\* to move_history, so White is to move iff the history has even length; and
\* the piece a click moves has the colour of current_player before the move.
C5_TurnAlternation == []C5_Parity /\ [][C5_Step]_vars

\* three moves have been played
C5_Witness == Len(move_history) >= 3 /\ current_player = BLACK

FarRow(color) == IF color = WHITE THEN 0 ELSE 7

C7_Step ==
  (/\ MoveApplied
   /\ PieceAt(AppliedMove[1]).type = PAWN
   /\ AppliedMove[2][1] = FarRow(PieceAt(AppliedMove[1]).color))
  => board'[AppliedMove[2][1]][AppliedMove[2][2]]
        = Piece(PieceAt(AppliedMove[1]).color, QUEEN)

C7_NoPawnOnEdge ==
  \A sq \in Squares :
     PieceAt(sq).type = PAWN =>
        /\ sq[1] \notin {0, 7}
        /\ \A i \in 1 .. Len(get_pawn_moves(Self, sq[1], sq[2])) :
              is_valid_position(get_pawn_moves(Self, sq[1], sq[2])[i][1],
                                get_pawn_moves(Self, sq[1], sq[2])[i][2])

\* C7: a pawn moved onto the far row of its colour is replaced there by a
\* queen of its colour; no pawn stands on row 0 or row 7, and every
\* destination get_pawn_moves produces is a square of the board.
C7_Promotion == []C7_NoPawnOnEdge /\ [][C7_Step]_vars

\* a pawn of each colour has been promoted, Black's by the last move: each
\* side has a queen more than the one it started with
C7_Witness ==
  /\ Len(move_history) > 0
  /\ Last(move_history)[2][1] = 7
  /\ PieceAt(Last(move_history)[2]) = Piece(BLACK, QUEEN)
  /\ Cardinality({sq \in Squares : PieceAt(sq) = Piece(BLACK, QUEEN)}) = 2
  /\ Cardinality({sq \in Squares : PieceAt(sq) = Piece(WHITE, QUEEN)}) = 2

----------------------------------------------------------------------------
(* Properties of a Board called directly *)

\* some piece of the colour has a non-empty get_legal_moves result
HasLegalMove(B, color) ==
  \E sq \in Squares :
     /\ B.board[sq[1]][sq[2]] # NoPiece
     /\ B.board[sq[1]][sq[2]].color = color
     /\ get_legal_moves(B, sq[1], sq[2]) # <<>>

\* C6: whenever is_checkmate or is_stalemate has answered for a colour,
\* exactly one of is_checkmate, is_stalemate and "some piece of the colour
\* has a legal move" holds for that colour; checkmate implies check and
\* stalemate implies no check.
C6_TerminalClassification ==
  ret.op \in {"is_checkmate", "is_stalemate"} =>
     LET color == ret.args[1]
         mate == IF ret.op = "is_checkmate" THEN ret.value
                 ELSE is_checkmate(Self, color)
         stale == IF ret.op = "is_stalemate" THEN ret.value
                  ELSE is_stalemate(Self, color)
         moves == HasLegalMove(Self, color)
     IN  /\ mate \/ stale \/ moves
         /\ ~(mate /\ stale) /\ ~(mate /\ moves) /\ ~(stale /\ moves)
         /\ mate => is_in_check(Self, color)
         /\ stale => ~is_in_check(Self, color)

\* is_checkmate has answered true for a colour whose opponent has a legal
\* move and is neither mated nor stalemated
C6_Witness ==
  /\ ret.op = "is_checkmate"
  /\ ret.value = TRUE
  /\ is_in_check(Self, ret.args[1])
  /\ HasLegalMove(Self, Opponent(ret.args[1]))
  /\ ~is_stalemate(Self, Opponent(ret.args[1]))

\* is_stalemate has answered true
C6_WitnessStalemate ==
  /\ ret.op = "is_stalemate"
  /\ ret.value = TRUE
  /\ ~HasLegalMove(Self, ret.args[1])

QueryOps ==
  {"get_legal_moves", "is_in_check", "is_checkmate", "is_stalemate",
   "is_square_attacked", "find_king"}

\* C8: a call of get_legal_moves, is_in_check, is_checkmate, is_stalemate,
\* is_square_attacked or find_king leaves the grid, en_passant_target,
\* current_player and move_history of the Board as they were.
C8_QueriesLeaveTheBoard ==
  [][(ret.op = "idle" /\ ret'.op \in QueryOps) => Self' = Self]_vars

\* get_legal_moves has simulated moves of a piece, kept some and dropped some
C8_Witness ==
  /\ ret.op = "get_legal_moves"
  /\ Len(ret.value) > 0
  /\ Len(ret.value) < Len(piece_moves(Self, ret.args[1][1], ret.args[1][2]))

\* C9: make_move called with no piece on start ends in an error and leaves
\* the grid, en_passant_target, current_player and move_history as they were.
C9_EmptyOrigin ==
  [][(/\ ret.op = "idle"
      /\ ret'.op = "make_move"
      /\ PieceAt(ret'.args[1]) = NoPiece)
     => (ret'.value = "AttributeError" /\ Self' = Self)]_vars

\* make_move has been called with no piece on start
C9_Witness ==
  /\ ret.op = "make_move"
  /\ PieceAt(ret.args[1]) = NoPiece
  /\ ret.value = "AttributeError"
  /\ move_history = <<>>

\* the squares holding a king of the colour
KingSquares(color) == {sq \in Squares : PieceAt(sq) = Piece(color, KING)}

\* C10: on a grid with no king of a colour, find_king of that colour is
\* None and is_in_check and is_checkmate of that colour are false.
C10_MissingKing ==
  \A color \in Colors :
     KingSquares(color) = {} =>
        /\ find_king(Self, color) = None
        /\ ~is_in_check(Self, color)
        /\ ~is_checkmate(Self, color)

\* is_in_check has answered for a colour that has no king while pieces of the
\* other colour stand on the grid
C10_Witness ==
  /\ ret.op = "is_in_check"
  /\ KingSquares(ret.args[1]) = {}
  /\ ret.value = FALSE
  /\ \E sq \in Squares :
        PieceAt(sq) # NoPiece /\ PieceAt(sq).color = Opponent(ret.args[1])

----------------------------------------------------------------------------
(* Properties of the opening position *)

\* the set of the destinations in a move list
Destinations(moves) == {moves[i] : i \in 1 .. Len(moves)}

\* the move list has no destination twice
NoRepeats(moves) == Cardinality(Destinations(moves)) = Len(moves)

\* what the claim expects get_legal_moves to give for the piece on sq of the
\* opening position
OpeningMoves(sq) ==
  LET piece == PieceAt(sq)
      forward == IF piece.color = WHITE THEN -1 ELSE 1
  IN  IF piece.type = PAWN
      THEN {<<sq[1] + forward, sq[2]>>, <<sq[1] + 2 * forward, sq[2]>>}
      ELSE IF piece.type = KNIGHT
      THEN {<<sq[1] + 2 * forward, sq[2] - 1>>, <<sq[1] + 2 * forward, sq[2] + 1>>}
      ELSE {}

\* C11: on the Board as reset leaves it, get_legal_moves gives (5,4) and (4,4)
\* for the pawn on (6,4) and (5,0) and (5,2) for the knight on (7,1); every
\* pawn has its one-step and two-step advance, every knight its two forward
\* jumps, every other piece nothing; en_passant_target is None, White is to
\* move, and neither colour is in check, checkmated or stalemated.
C11_OpeningPosition ==
  move_history = <<>> =>
     /\ board = set_initial_position
     /\ Destinations(get_legal_moves(Self, 6, 4)) = {<<5, 4>>, <<4, 4>>}
     /\ Destinations(get_legal_moves(Self, 7, 1)) = {<<5, 0>>, <<5, 2>>}
     /\ \A sq \in Squares :
           /\ Destinations(get_legal_moves(Self, sq[1], sq[2])) = OpeningMoves(sq)
           /\ NoRepeats(get_legal_moves(Self, sq[1], sq[2]))
     /\ en_passant_target = None
     /\ current_player = WHITE
     /\ \A color \in Colors :
           /\ ~is_in_check(Self, color)
           /\ ~is_checkmate(Self, color)
           /\ ~is_stalemate(Self, color)

\* the pawn on (6,4) of the opening position is selected with its two advances
C11_Witness ==
  /\ move_history = <<>>
  /\ selected_piece = <<6, 4>>
  /\ legal_moves = << <<5, 4>>, <<4, 4>> >>

----------------------------------------------------------------------------
(* Properties of the move generators *)

\* the square i steps from sq in direction d
RayStep(sq, d, i) == <<sq[1] + i * d[1], sq[2] + i * d[2]>>

\* the steps from sq in direction d that stay on the board
RaySteps(sq, d) ==
  {i \in 1 .. 7 : is_valid_position(RayStep(sq, d, i)[1], RayStep(sq, d, i)[2])}

\* the steps from sq in direction d that land on a piece
Blockers(sq, d) == {i \in RaySteps(sq, d) : PieceAt(RayStep(sq, d, i)) # NoPiece}

\* the empty squares next to sq in direction d before step first, and the
\* square of step first if the piece on it is of the other colour
ReachUpTo(sq, d, first) ==
  {RayStep(sq, d, i) : i \in 1 .. (first - 1)}
  \cup (IF PieceAt(RayStep(sq, d, first)).color # PieceAt(sq).color
        THEN {RayStep(sq, d, first)} ELSE {})

ReachAmong(sq, d, blockers) ==
  IF blockers = {} THEN {RayStep(sq, d, i) : i \in RaySteps(sq, d)}
  ELSE ReachUpTo(sq, d, CHOOSE i \in blockers : \A j \in blockers : i <= j)

\* the empty squares next to sq in direction d up to the first piece, and
\* that piece's square if it is of the other colour
Reach(sq, d) == ReachAmong(sq, d, Blockers(sq, d))

FirstBlocker(sq, d) ==
  CHOOSE i \in Blockers(sq, d) : \A j \in Blockers(sq, d) : i <= j

\* the directions of the piece on sq
DirectionsOf(sq) ==
  CASE PieceAt(sq).type = ROOK -> Destinations(rook_directions)
    [] PieceAt(sq).type = BISHOP -> Destinations(bishop_directions)
    [] PieceAt(sq).type = QUEEN ->
         Destinations(rook_directions) \cup Destinations(bishop_directions)
    [] OTHER -> {}

\* the squares holding a rook, a bishop or a queen
Sliders == {sq \in Squares : PieceAt(sq).type \in {ROOK, BISHOP, QUEEN}}

\* C12: the destinations generated for a rook, bishop or queen are, for each
\* of its directions, the consecutive empty squares next to the piece and
\* then the first occupied square iff it holds an enemy piece, and nothing
\* else: none beyond a blocker, none off the board, none twice; the queen's
\* set is the union of the rook's and the bishop's from the same square.
C12_SlidingStopsAtBlocker ==
  \A sq \in Sliders :
     \E moves \in {piece_moves(Self, sq[1], sq[2])} :
        /\ Destinations(moves) = UNION {Reach(sq, d) : d \in DirectionsOf(sq)}
        /\ Destinations(moves) \subseteq Squares
        /\ NoRepeats(moves)
        /\ PieceAt(sq).type = QUEEN =>
              Destinations(moves) =
                 Destinations(get_rook_moves(Self, sq[1], sq[2]))
                 \cup Destinations(get_bishop_moves(Self, sq[1], sq[2]))

\* a sliding piece is selected that is stopped by an enemy piece it can
\* capture in one direction, by a friendly piece after at least one empty
\* square in another, and with an enemy piece standing beyond a blocker
C12_Witness ==
  /\ selected_piece # None
  /\ PieceAt(selected_piece).type \in {ROOK, BISHOP, QUEEN}
  /\ \E d \in DirectionsOf(selected_piece) :
        /\ Blockers(selected_piece, d) # {}
        /\ RayStep(selected_piece, d, FirstBlocker(selected_piece, d))
             \in Destinations(legal_moves)
        /\ Cardinality(Blockers(selected_piece, d)) >= 2
  /\ \E d \in DirectionsOf(selected_piece) :
        /\ Blockers(selected_piece, d) # {}
        /\ FirstBlocker(selected_piece, d) >= 2
        /\ PieceAt(RayStep(selected_piece, d, FirstBlocker(selected_piece, d))).color
             = PieceAt(selected_piece).color

\* the squares holding a piece of the colour on a grid
Holding(grid, color) == {sq \in Squares : grid[sq[1]][sq[2]].color = color}

\* C13: the destinations generated for a piece, whatever its kind, never
\* include a square holding a piece of its own colour, and make_move of a
\* generated move leaves every other piece of the mover's colour where it was.
C13_NoMoveOntoFriend ==
  \A color \in Colors :
     \E own \in {Holding(board, color)} :
        \A sq \in own :
           \E moves \in {piece_moves(Self, sq[1], sq[2])} :
              \A i \in 1 .. Len(moves) :
                 /\ moves[i] \notin own
                 /\ \E grid \in {moved_grid(Self, sq, moves[i])} :
                       \A other \in own \ {sq} :
                          grid[other[1]][other[2]] = PieceAt(other)

\* a pawn is selected that can capture onto the en-passant target, a pawn of
\* the side that has just moved has the target among its generated
\* destinations too, and some knight or king has a friendly piece on a square
\* of its pattern
C13_Witness ==
  /\ selected_piece # None
  /\ PieceAt(selected_piece).type = PAWN
  /\ en_passant_target \in Destinations(legal_moves)
  /\ \E sq \in Squares :
        /\ PieceAt(sq) = Piece(Opponent(current_player), PAWN)
        /\ en_passant_target \in Destinations(get_pawn_moves(Self, sq[1], sq[2]))
  /\ \E sq \in Squares, k \in 1 .. Len(knight_moves) :
        /\ PieceAt(sq).type = KNIGHT
        /\ get_piece(Self, sq[1] + knight_moves[k][1], sq[2] + knight_moves[k][2]).color
             = PieceAt(sq).color

----------------------------------------------------------------------------
(* Properties of the moves a session makes *)

\* the cells in which two grids differ
Changed(g, h) == {sq \in Squares : g[sq[1]][sq[2]] # h[sq[1]][sq[2]]}

\* the Board after the moves of a history played from a fresh Board
RECURSIVE Replay(_)
Replay(history) ==
  IF history = <<>> THEN reset
  ELSE make_move(Replay(SubSeq(history, 1, Len(history) - 1)),
                 Last(history)[1], Last(history)[2])

C14_Step ==
  MoveApplied =>
     LET start == AppliedMove[1]
         end == AppliedMove[2]
         piece == PieceAt(start)
         promoted == piece.type = PAWN /\ end[1] \in {0, 7}
         passing == piece.type = PAWN /\ end = en_passant_target
     IN  /\ board'[start[1]][start[2]] = NoPiece
         /\ board'[end[1]][end[2]] =
               IF promoted THEN Piece(piece.color, QUEEN) ELSE piece
         /\ Changed(board, board') \subseteq
               {start, end} \cup (IF passing THEN {<<start[1], end[2]>>} ELSE {})
         /\ (PieceAt(end) = NoPiece /\ ~promoted /\ ~passing) =>
               [board' EXCEPT ![start[1]][start[2]] = board'[end[1]][end[2]],
                              ![end[1]][end[2]] = NoPiece] = board

\* C14: a move leaves start empty and end holding the moved piece or, for a
\* pawn reaching row 0 or 7, a queen of its colour; the only other cell it may
\* change is (start row, end column), and only when a pawn moves onto the
\* en-passant target; so putting the piece of a non-capturing, non-promoting,
\* non-en-passant move back on start and emptying end restores the grid.
C14_MakeMoveFrame == [][C14_Step]_vars

\* the last move was a pawn's move onto the en-passant target and changed
\* three cells of the grid
C14_Witness ==
  /\ Len(move_history) >= 2
  /\ \E Before \in {Replay(SubSeq(move_history, 1, Len(move_history) - 1))} :
        /\ Before.board[Last(move_history)[1][1]][Last(move_history)[1][2]].type = PAWN
        /\ Last(move_history)[2] = Before.en_passant_target
        /\ Cardinality(Changed(Before.board, board)) = 3

----------------------------------------------------------------------------
(* Properties of check detection on a Board called directly *)

Abs(x) == IF x < 0 THEN -x ELSE x

Sign(x) == IF x < 0 THEN -1 ELSE IF x > 0 THEN 1 ELSE 0

\* the squares strictly between two squares of a row, column or diagonal
Between(from, to) ==
  LET dr == to[1] - from[1]
      dc == to[2] - from[2]
      n == IF Abs(dr) > Abs(dc) THEN Abs(dr) ELSE Abs(dc)
  IN  {<<from[1] + i * Sign(dr), from[2] + i * Sign(dc)>> : i \in 1 .. (n - 1)}

\* the rules of chess: the piece on from could capture on to
Captures(from, to) ==
  LET piece == PieceAt(from)
      dr == to[1] - from[1]
      dc == to[2] - from[2]
      straight == (dr = 0 /\ dc # 0) \/ (dr # 0 /\ dc = 0)
      diagonal == Abs(dr) = Abs(dc) /\ dr # 0
      clear == \A sq \in Between(from, to) : PieceAt(sq) = NoPiece
  IN  CASE piece.type = ROOK -> straight /\ clear
        [] piece.type = BISHOP -> diagonal /\ clear
        [] piece.type = QUEEN -> (straight \/ diagonal) /\ clear
        [] piece.type = KNIGHT -> {Abs(dr), Abs(dc)} = {1, 2}
        [] piece.type = KING -> Abs(dr) <= 1 /\ Abs(dc) <= 1 /\ from # to
        [] piece.type = PAWN ->
             dr = (IF piece.color = WHITE THEN -1 ELSE 1) /\ Abs(dc) = 1
        [] OTHER -> FALSE

\* some piece of the colour could capture on the square
Attackers(to, color) ==
  {from \in Squares : PieceAt(from).color = color /\ Captures(from, to)}

\* C15: when is_in_check has answered for a colour that has a king, the
\* answer is true iff some piece of the other colour could capture on the
\* king's square by the rules of chess: rook, bishop and queen along a clear
\* line, knight by its jump, king from an adjacent square, pawn one step
\* diagonally forward and never by its straight advance.
C15_CheckMatchesAttackRules ==
  (ret.op = "is_in_check" /\ Cardinality(KingSquares(ret.args[1])) = 1) =>
     \A king \in KingSquares(ret.args[1]) :
        ret.value <=> (Attackers(king, Opponent(ret.args[1])) # {})

\* is_in_check has answered false for a king that has an enemy pawn standing
\* straight before it, one step from the king
C15_Witness ==
  /\ ret.op = "is_in_check"
  /\ ret.value = FALSE
  /\ \E king \in KingSquares(ret.args[1]), sq \in Squares :
        /\ PieceAt(sq) = Piece(Opponent(ret.args[1]), PAWN)
        /\ sq[2] = king[2]
        /\ sq[1] + pawn_direction(PieceAt(sq)) = king[1]

\* is_in_check has answered true for a king attacked by a pawn
C15_WitnessPawnCheck ==
  /\ ret.op = "is_in_check"
  /\ ret.value = TRUE
  /\ \E king \in KingSquares(ret.args[1]) :
        \E sq \in Attackers(king, Opponent(ret.args[1])) : PieceAt(sq).type = PAWN

----------------------------------------------------------------------------
(* Properties of the game a session plays *)

C16_OneKingEach ==
  \A color \in Colors : Cardinality(KingSquares(color)) = 1

C16_Step ==
  MoveApplied => PieceAt(AppliedMove[2]).type # KING

\* C16: in every state of a session the grid holds exactly one White king and
\* exactly one Black king, and no move a click makes ends on a king's square.
C16_KingsNeverCaptured == []C16_OneKingEach /\ [][C16_Step]_vars

C17_Selection ==
  IF selected_piece = None THEN legal_moves = <<>>
  ELSE /\ PieceAt(selected_piece) # NoPiece
       /\ PieceAt(selected_piece).color = current_player
       /\ legal_moves = get_legal_moves(Self, selected_piece[1], selected_piece[2])

C17_Step ==
  MoveApplied =>
     /\ AppliedMove[1] = selected_piece
     /\ PieceAt(AppliedMove[1]) # NoPiece
     /\ PieceAt(AppliedMove[1]).color = current_player
     /\ \E moves \in {get_legal_moves(Self, AppliedMove[1][1], AppliedMove[1][2])} :
           InList(AppliedMove[2], moves)

\* C17: while a square is selected it holds a piece of the side to move and
\* legal_moves is get_legal_moves of that square on the Board as it is now;
\* while none is selected legal_moves is empty; so every move a click makes
\* starts on a piece of the side to move and ends on a destination
\* get_legal_moves gives for it on the Board as it is at that click.
C17_SelectionConsistency == []C17_Selection /\ [][C17_Step]_vars

\* after at least one move, the king of the side to move is in check and is
\* selected, and the legality filter has kept some of its moves and dropped
\* others
C17_Witness ==
  /\ Len(move_history) >= 1
  /\ selected_piece # None
  /\ PieceAt(selected_piece) = Piece(current_player, KING)
  /\ is_in_check(Self, current_player)
  /\ Len(legal_moves) >= 1
  /\ Len(legal_moves) < Len(piece_moves(Self, selected_piece[1], selected_piece[2]))

\* some piece of the colour has a generated move that, made with make_move on
\* the Board itself, leaves the colour out of check
HasEscape(B, color) ==
  \E sq \in Squares :
     /\ B.board[sq[1]][sq[2]].color = color
     /\ \E moves \in {piece_moves(B, sq[1], sq[2])} :
           \E i \in 1 .. Len(moves) : ~is_in_check(make_move(B, sq, moves[i]), color)

C18_Step ==
  MoveApplied =>
     /\ game_over' <=> ~HasEscape(Self', current_player')
     /\ game_over' =>
           winner' = (IF is_in_check(Self', current_player')
                      THEN current_player ELSE NoWinner)

C18_NoEarlyEnd == game_over => ~HasEscape(Self, current_player)

\* C18: right after a move made by a click, game_over is true iff no piece of
\* the new side to move has a move that leaves its king out of check; the
\* winner is then the colour that moved if the new side to move is in check
\* and None if it is not; game_over is never true while the side to move has
\* such a move.
C18_GameOverDetection == []C18_NoEarlyEnd /\ [][C18_Step]_vars

\* the game is as ChessGame() builds it: the opening position, White to
\* move, nothing selected, not over
FreshGame ==
  /\ board' = set_initial_position
  /\ en_passant_target' = None
  /\ current_player' = WHITE
  /\ move_history' = <<>>
  /\ selected_piece' = None
  /\ legal_moves' = <<>>
  /\ game_over' = FALSE
  /\ winner' = NoWinner

C19_Step ==
  game_over =>
     \/ UNCHANGED <<board, en_passant_target, current_player, move_history,
                    selected_piece, legal_moves, game_over, winner>>
     \/ FreshGame

\* C19: once game_over is true, a click leaves the grid, current_player,
\* en_passant_target, move_history, selected_piece, legal_moves, game_over
\* and winner as they are; the only other step is the reset key's, which
\* gives the opening position with White to move and nothing selected.
C19_GameOverIsAbsorbing == [][C19_Step]_vars

\* the game is over by stalemate with nothing selected, and a click of the
\* session has strayed from the recorded game
C19_Witness ==
  /\ game_over
  /\ winner = NoWinner
  /\ strays > 0
  /\ selected_piece = None
  /\ ~HasLegalMove(Self, current_player)

====
